---- MODULE Spec2Model ----
(***************************************************************************)
(* Model of the facturacion-api servers: the stdio tool server             *)
(* (agent_server.py), the SSE tool server (agent_server_sse.py), the       *)
(* invoice HTTP API (facturacion_server.py) and the performance HTTP API   *)
(* (performance_server.py).                                                *)
(*                                                                         *)
(* Python strings are sequences of one-character strings, so that LOWER,   *)
(* strptime and the string comparison of the code are computed and not     *)
(* assumed.  Python's None is the value None below.                        *)
(***************************************************************************)
EXTENDS Integers, Sequences, FiniteSets, TLC

VARIABLES contacto_agentes, pc, handler, req, resp, log, open_conns

vars == <<contacto_agentes, pc, handler, req, resp, log, open_conns>>

\* ------------------------------------------------------------------ bounds
\* the largest value of the limit parameter that a request carries
MaxLimit == 2
\* the largest number of rows of the identity table contacto_agentes
MaxAgents == 2

\* ------------------------------------------------------- strings of Python
None == <<"<None>">>

\* Python truthiness of an Optional[str]: None and "" are falsy
Truthy(s) == s # None /\ s # <<>>

\* the characters that occur in the model, in code point order
CodePoints ==
  <<" ", "-", "/", "0", "1", "2", "3", "4", "5", "6", "7", "8", "9", "@",
    "A", "B", "C", "D", "E", "G", "I", "N", "O", "P", "R", "T", "X",
    "a", "b", "c", "x">>

Ord(c) == CHOOSE i \in 1..Len(CodePoints) : CodePoints[i] = c

UpperCase == <<"A", "B", "C", "X">>
LowerCase == <<"a", "b", "c", "x">>

\* LOWER of one character
LowerChar(c) ==
  IF \E i \in 1..Len(UpperCase) : UpperCase[i] = c
  THEN LowerCase[CHOOSE i \in 1..Len(UpperCase) : UpperCase[i] = c]
  ELSE c

\* SQL LOWER(text)
LOWER(s) == [i \in 1..Len(s) |-> LowerChar(s[i])]

\* Python's s > t on str: lexicographic by code point, a proper prefix is smaller
StrGreater(s, t) ==
  \/ \E k \in 1..Len(s) :
       /\ k <= Len(t)
       /\ \A j \in 1..(k - 1) : s[j] = t[j]
       /\ Ord(s[k]) > Ord(t[k])
  \/ /\ Len(s) > Len(t)
     /\ \A j \in 1..Len(t) : s[j] = t[j]

\* --------------------------------------------------- datetime.strptime
Digits == <<"0", "1", "2", "3", "4", "5", "6", "7", "8", "9">>

IsDigit(c) == \E i \in 1..Len(Digits) : Digits[i] = c

DigitVal(c) == (CHOOSE i \in 1..Len(Digits) : Digits[i] = c) - 1

\* character i of s, or "" past the end
At(s, i) == IF i >= 1 /\ i <= Len(s) THEN s[i] ELSE ""

InRange(c, lo, hi) == IsDigit(c) /\ DigitVal(c) >= lo /\ DigitVal(c) <= hi

\* %m is 1[0-2]|0[1-9]|[1-9]: the number of characters the first alternative
\* that matches at p and is followed by "-" consumes, 0 when none does
MatchMonth(s, p) ==
  IF At(s, p) = "1" /\ InRange(At(s, p + 1), 0, 2) /\ At(s, p + 2) = "-" THEN 2
  ELSE IF At(s, p) = "0" /\ InRange(At(s, p + 1), 1, 9) /\ At(s, p + 2) = "-" THEN 2
  ELSE IF InRange(At(s, p), 1, 9) /\ At(s, p + 1) = "-" THEN 1
  ELSE 0

\* %d is 3[0-1]|[1-2]\d|0[1-9]|[1-9]| [1-9]: the characters the first
\* alternative that matches at p consumes, 0 when none does
MatchDay(s, p) ==
  IF At(s, p) = "3" /\ InRange(At(s, p + 1), 0, 1) THEN 2
  ELSE IF InRange(At(s, p), 1, 2) /\ IsDigit(At(s, p + 1)) THEN 2
  ELSE IF At(s, p) = "0" /\ InRange(At(s, p + 1), 1, 9) THEN 2
  ELSE IF InRange(At(s, p), 1, 9) THEN 1
  ELSE IF At(s, p) = " " /\ InRange(At(s, p + 1), 1, 9) THEN 2
  ELSE 0

\* int() of the digits of s from p, n characters long (a leading space skipped)
RECURSIVE IntOf(_, _, _)
IntOf(s, p, n) ==
  IF n = 0 THEN 0
  ELSE IF s[p + n - 1] = " " THEN 0
  ELSE IntOf(s, p, n - 1) * 10 + DigitVal(s[p + n - 1])

IsLeap(y) == (y % 4 = 0) /\ ((y % 100 # 0) \/ (y % 400 = 0))

DaysInMonth(y, m) ==
  IF m = 2 THEN (IF IsLeap(y) THEN 29 ELSE 28)
  ELSE IF m \in {4, 6, 9, 11} THEN 30
  ELSE 31

NoDate == [ok |-> FALSE, y |-> 0, m |-> 0, d |-> 0]

\* datetime.strptime(fecha_str, "%Y-%m-%d"): the date, or ok = FALSE for ValueError
Strptime(s) ==
  IF ~(\A i \in 1..4 : IsDigit(At(s, i))) \/ At(s, 5) # "-" THEN NoDate
  ELSE LET ml == MatchMonth(s, 6) IN
    IF ml = 0 THEN NoDate
    ELSE LET dp == 6 + ml + 1
             dl == MatchDay(s, dp) IN
      IF dl = 0 THEN NoDate
      \* "unconverted data remains"
      ELSE IF dp + dl - 1 # Len(s) THEN NoDate
      ELSE LET y == IntOf(s, 1, 4)
               m == IntOf(s, 6, ml)
               d == IntOf(s, dp, dl) IN
        \* datetime(year, month, day) raises ValueError outside the calendar
        IF y < 1 \/ d > DaysInMonth(y, m) THEN NoDate
        ELSE [ok |-> TRUE, y |-> y, m |-> m, d |-> d]

\* validar_fecha: True unless strptime raises ValueError
validar_fecha(fecha_str) == Strptime(fecha_str).ok

\* a date as the number yyyymmdd
DateNum(dt) == dt.y * 10000 + dt.m * 100 + dt.d

\* ------------------------------------------------------------ the database
B1 == <<"B", "1">>
B2 == <<"B", "2">>
B9 == <<"B", "9">>

PENDIENTE == <<"P", "E", "N", "D", "I", "E", "N", "T", "E">>
PAGADA == <<"P", "A", "G", "A", "D", "A">>
OTRA == <<"O", "T", "R", "A">>

\* the rows of view_ai_facturas (fecha_emision is a date column, as yyyymmdd)
view_ai_facturas ==
  { [numero_factura |-> "F-001", emisor_cif |-> B1, estado_legible |-> PAGADA,
     fecha_emision |-> 20241105, moneda |-> "EUR", total |-> 1200,
     emisor_direccion_calle |-> "Calle Velazquez 12"],
    [numero_factura |-> "F-002", emisor_cif |-> B1, estado_legible |-> PENDIENTE,
     fecha_emision |-> 20241120, moneda |-> "EUR", total |-> 800,
     emisor_direccion_calle |-> "Avenida Ricard Vicent 3"],
    [numero_factura |-> "F-003", emisor_cif |-> B1, estado_legible |-> PAGADA,
     fecha_emision |-> 20240115, moneda |-> "EUR", total |-> 300,
     emisor_direccion_calle |-> "Calle Velazquez 12"],
    [numero_factura |-> "F-004", emisor_cif |-> B2, estado_legible |-> PAGADA,
     fecha_emision |-> 20241110, moneda |-> "EUR", total |-> 950,
     emisor_direccion_calle |-> "Calle Velazquez 14"],
    [numero_factura |-> "F-005", emisor_cif |-> B2, estado_legible |-> PENDIENTE,
     fecha_emision |-> 20240201, moneda |-> "EUR", total |-> 410,
     emisor_direccion_calle |-> "Avenida Ricard Vicent 3"] }

\* pg_trgm similarity(emisor_direccion_calle, term), in hundredths
similarity(calle, term) ==
  CASE calle = "Calle Velazquez 12" /\ term = "Velazquez" -> 56
    [] calle = "Calle Velazquez 14" /\ term = "Velazquez" -> 52
    [] calle = "Avenida Ricard Vicent 3" /\ term = "Ricard Vicent" -> 61
    [] calle = "Avenida Ricard Vicent 3" /\ term = "Velazquez" -> 4
    [] OTHER -> 0

\* the operator %: similarity above pg_trgm.similarity_threshold (0.3)
TrgmMatch(calle, term) == similarity(calle, term) > 30

\* --- the statements, as the fragments the code concatenates
BaseSql == "SELECT numero_factura, estado_legible, fecha_emision, moneda, total FROM view_ai_facturas WHERE emisor_cif = %s"
AndEstadoSql == " AND estado_legible = %s"
AndFechaInicioSql == " AND fecha_emision >= %s"
AndFechaFinSql == " AND fecha_emision <= %s"
OrderLimitSql == " ORDER BY fecha_emision DESC LIMIT %s"
FuzzySql == "SELECT numero_factura, estado_legible, total, moneda, emisor_direccion_calle, similarity(emisor_direccion_calle, %s) as score FROM view_ai_facturas WHERE emisor_cif = %s AND emisor_direccion_calle %% %s ORDER BY score DESC LIMIT 3;"
ResolveSql == "SELECT cif FROM contacto_agentes WHERE LOWER(email) = LOWER(%s)"
AnualSql == "SELECT ventas, facturado, cobrado FROM view_agente_performance_anual WHERE correo = %s AND anyo = %s"
TotalSql == "SELECT SUM(ventas) as total_ventas, SUM(facturado) as total_facturado, SUM(cobrado) as total_cobrado FROM view_agente_performance_anual WHERE correo = %s"
ZonaSql == "SELECT a.nombre as agente_nombre, z.nombre as zona_nombre, z.ciudad FROM agentes a LEFT JOIN zonas z ON z.id = a.zona_id WHERE a.correo = %s"
HealthSql == "SELECT 1"
StatsSql == "SELECT zona, num_ventas, precio_medio, precio_m2_medio, total_honorarios FROM view_stats_zonas"
WhereZonaSql == " WHERE zona ILIKE %s"
OrderLimitStatsSql == " ORDER BY num_ventas DESC LIMIT %s"

\* what each %s of a fragment is bound to, in the order of the text
Placeholders(fragment) ==
  CASE fragment = BaseSql -> <<"emisor_cif =">>
    [] fragment = AndEstadoSql -> <<"estado_legible =">>
    [] fragment = AndFechaInicioSql -> <<"fecha_emision >=">>
    [] fragment = AndFechaFinSql -> <<"fecha_emision <=">>
    [] fragment = OrderLimitSql -> <<"LIMIT">>
    [] fragment = FuzzySql -> <<"similarity(emisor_direccion_calle, )", "emisor_cif =", "emisor_direccion_calle %">>
    [] fragment = ResolveSql -> <<"LOWER(email) = LOWER()">>
    [] fragment = AnualSql -> <<"correo =", "anyo =">>
    [] fragment = TotalSql -> <<"correo =">>
    [] fragment = ZonaSql -> <<"correo =">>
    [] OTHER -> <<>>

\* the placeholders of a whole statement
RECURSIVE StatementPlaceholders(_)
StatementPlaceholders(query) ==
  IF query = <<>> THEN <<>>
  ELSE Placeholders(Head(query)) \o StatementPlaceholders(Tail(query))

\* the rows of a set in the order of ORDER BY fecha_emision DESC
RECURSIVE OrderByFechaDesc(_)
OrderByFechaDesc(S) ==
  IF S = {} THEN <<>>
  ELSE LET top == CHOOSE r \in S : \A o \in S : r.fecha_emision >= o.fecha_emision
       IN <<top>> \o OrderByFechaDesc(S \ {top})

\* the rows of a set in the order of ORDER BY score DESC
RECURSIVE OrderByScoreDesc(_)
OrderByScoreDesc(S) ==
  IF S = {} THEN <<>>
  ELSE LET top == CHOOSE r \in S : \A o \in S : r.score >= o.score
       IN <<top>> \o OrderByScoreDesc(S \ {top})

Take(rows, n) == SubSeq(rows, 1, IF n < Len(rows) THEN n ELSE Len(rows))

\* one condition of the WHERE clause on one row; a date literal the server
\* cannot read fails the statement before any row is looked at
RowPasses(r, what, arg) ==
  CASE what = "emisor_cif =" -> r.emisor_cif = arg
    [] what = "estado_legible =" -> r.estado_legible = arg
    [] what = "fecha_emision >=" -> r.fecha_emision >= DateNum(Strptime(arg))
    [] what = "fecha_emision <=" -> r.fecha_emision <= DateNum(Strptime(arg))
    [] what = "emisor_direccion_calle %" -> TrgmMatch(r.emisor_direccion_calle, arg)
    [] OTHER -> TRUE

ListColumns(r) ==
  [numero_factura |-> r.numero_factura, estado_legible |-> r.estado_legible,
   fecha_emision |-> r.fecha_emision, moneda |-> r.moneda, total |-> r.total]

FuzzyColumns(r, term) ==
  [numero_factura |-> r.numero_factura, estado_legible |-> r.estado_legible,
   total |-> r.total, moneda |-> r.moneda,
   emisor_direccion_calle |-> r.emisor_direccion_calle,
   score |-> similarity(r.emisor_direccion_calle, term)]

\* cur.execute(query, params); cur.fetchall() on view_ai_facturas:
\* ok = FALSE when the driver or the server raises
ExecuteFacturas(query, params) ==
  LET ph == StatementPlaceholders(query)
      n == Len(ph)
      dates == {i \in 1..n : ph[i] \in {"fecha_emision >=", "fecha_emision <="}}
  IN
  IF Len(params) # n THEN [ok |-> FALSE, rows |-> <<>>]
  ELSE IF \E i \in dates : ~Strptime(params[i]).ok THEN [ok |-> FALSE, rows |-> <<>>]
  ELSE LET hit == {r \in view_ai_facturas : \A i \in 1..n : RowPasses(r, ph[i], params[i])}
       IN IF Head(query) = FuzzySql
          THEN [ok |-> TRUE,
                rows |-> Take(OrderByScoreDesc({FuzzyColumns(r, params[1]) : r \in hit}), 3)]
          ELSE [ok |-> TRUE,
                rows |-> Take([i \in 1..Cardinality(hit) |->
                                 ListColumns(OrderByFechaDesc(hit)[i])], params[n])]

\* ------------------------------------------------ connections and responses
\* what a handler did to the database, in order
Connect(ok) == [op |-> "connect", ok |-> ok, query |-> <<>>, params |-> <<>>]
Executed(query, params, ok) == [op |-> "execute", ok |-> ok, query |-> query, params |-> params]
\* a connection block that ends the transaction and keeps the connection
CommitOnly == [op |-> "commit", ok |-> TRUE, query |-> <<>>, params |-> <<>>]
\* leaving "with get_db_connection() as conn": psycopg closes the connection
Close == [op |-> "close", ok |-> TRUE, query |-> <<>>, params |-> <<>>]

\* a str returned by a tool: the text it starts with, the exception whose
\* str() it embeds, the rows it lists and the filters it mentions
Text(tag, exc, rows, echo) ==
  [status |-> 0, tag |-> tag, exc |-> exc, rows |-> rows, keys |-> {}, echo |-> echo,
   data |-> <<>>]

\* an HTTPException
HttpError(status, detail, exc) ==
  [status |-> status, tag |-> detail, exc |-> exc, rows |-> <<>>, keys |-> {}, echo |-> <<>>,
   data |-> <<>>]

\* a JSON body returned with status 200
Json(keys, rows, echo) ==
  [status |-> 200, tag |-> "", exc |-> "", rows |-> rows, keys |-> keys, echo |-> echo,
   data |-> <<>>]

\* a JSON body of mi-performance or mi-zona: its keys, its "tipo" or "agente"
\* and its "data" or "zona" record
JsonData(keys, of, data) ==
  [status |-> 200, tag |-> "", exc |-> "", rows |-> <<>>, keys |-> keys, echo |-> of,
   data |-> data]

Outcome(r, l) == [resp |-> r, log |-> l]

\* ---------------------------------------------------------- agent_server.py
\* TEST_AGENT_CIF of the environment
CURRENT_AGENT_CIF == B1

\* the statement consultar_mis_facturas builds
stdio_query(estado, fecha_inicio, fecha_fin) ==
  <<BaseSql>>
    \o (IF Truthy(estado) THEN <<AndEstadoSql>> ELSE <<>>)
    \o (IF Truthy(fecha_inicio) THEN <<AndFechaInicioSql>> ELSE <<>>)
    \o (IF Truthy(fecha_fin) THEN <<AndFechaFinSql>> ELSE <<>>)
    \o <<OrderLimitSql>>

\* the argument list consultar_mis_facturas builds
stdio_params(estado, fecha_inicio, fecha_fin, limit) ==
  <<CURRENT_AGENT_CIF>>
    \o (IF Truthy(estado) THEN <<estado>> ELSE <<>>)
    \o (IF Truthy(fecha_inicio) THEN <<fecha_inicio>> ELSE <<>>)
    \o (IF Truthy(fecha_fin) THEN <<fecha_fin>> ELSE <<>>)
    \o <<limit>>

\* the filters the summary mentions
stdio_filtros(estado, fecha_inicio, fecha_fin) ==
  (IF Truthy(estado) THEN <<"estado">> ELSE <<>>)
    \o (IF Truthy(fecha_inicio) /\ Truthy(fecha_fin) THEN <<"periodo">>
        ELSE IF Truthy(fecha_inicio) THEN <<"desde">>
        ELSE IF Truthy(fecha_fin) THEN <<"hasta">>
        ELSE <<>>)

\* the try block of consultar_mis_facturas: every way it can end
stdio_consultar_try(estado, fecha_inicio, fecha_fin, limit) ==
  LET query == stdio_query(estado, fecha_inicio, fecha_fin)
      params == stdio_params(estado, fecha_inicio, fecha_fin, limit)
      res == ExecuteFacturas(query, params)
      sent == <<Connect(TRUE), Executed(query, params, res.ok), Close>>
      lost == <<Connect(TRUE), Executed(query, params, FALSE), Close>>
  IN
  { Outcome(Text("Error en sistema de facturacion: ", "RuntimeError: Error conectando a la BD", <<>>, <<>>),
            <<Connect(FALSE)>>),
    Outcome(Text("Error en sistema de facturacion: ", "psycopg.Error", <<>>, <<>>), lost),
    IF ~res.ok
    THEN Outcome(Text("Error en sistema de facturacion: ", "psycopg.Error", <<>>, <<>>), sent)
    ELSE IF res.rows = <<>>
    THEN Outcome(Text("No se encontraron facturas con esos criterios.", "", <<>>, <<>>), sent)
    ELSE Outcome(Text("Encontre n factura(s)", "", res.rows,
                      stdio_filtros(estado, fecha_inicio, fecha_fin)), sent) }

\* consultar_mis_facturas of the stdio server without its check of estado
stdio_consultar_sin_estado(estado, fecha_inicio, fecha_fin, limit) ==
  IF Truthy(fecha_inicio) /\ ~validar_fecha(fecha_inicio)
  THEN {Outcome(Text("Error: Formato de fecha_inicio invalido. Usa 'YYYY-MM-DD' (ej: 2024-11-01).", "", <<>>, <<>>), <<>>)}
  ELSE IF Truthy(fecha_fin) /\ ~validar_fecha(fecha_fin)
  THEN {Outcome(Text("Error: Formato de fecha_fin invalido. Usa 'YYYY-MM-DD' (ej: 2024-11-30).", "", <<>>, <<>>), <<>>)}
  ELSE IF Truthy(fecha_inicio) /\ Truthy(fecha_fin) /\ StrGreater(fecha_inicio, fecha_fin)
  THEN {Outcome(Text("Error: La fecha_inicio no puede ser posterior a fecha_fin.", "", <<>>, <<>>), <<>>)}
  ELSE stdio_consultar_try(estado, fecha_inicio, fecha_fin, limit)

\* consultar_mis_facturas of the stdio server
stdio_consultar_mis_facturas(estado, fecha_inicio, fecha_fin, limit) ==
  IF Truthy(estado) /\ estado \notin {PENDIENTE, PAGADA}
  THEN {Outcome(Text("Error: Estado invalido. Usa 'PENDIENTE' o 'PAGADA'.", "", <<>>, <<>>), <<>>)}
  ELSE IF Truthy(fecha_inicio) /\ ~validar_fecha(fecha_inicio)
  THEN {Outcome(Text("Error: Formato de fecha_inicio invalido. Usa 'YYYY-MM-DD' (ej: 2024-11-01).", "", <<>>, <<>>), <<>>)}
  ELSE IF Truthy(fecha_fin) /\ ~validar_fecha(fecha_fin)
  THEN {Outcome(Text("Error: Formato de fecha_fin invalido. Usa 'YYYY-MM-DD' (ej: 2024-11-30).", "", <<>>, <<>>), <<>>)}
  ELSE IF Truthy(fecha_inicio) /\ Truthy(fecha_fin) /\ StrGreater(fecha_inicio, fecha_fin)
  THEN {Outcome(Text("Error: La fecha_inicio no puede ser posterior a fecha_fin.", "", <<>>, <<>>), <<>>)}
  ELSE stdio_consultar_try(estado, fecha_inicio, fecha_fin, limit)

\* the argument list buscar_factura_por_propiedad builds
stdio_buscar_params(query_direccion) ==
  <<query_direccion, CURRENT_AGENT_CIF, query_direccion>>

\* buscar_factura_por_propiedad of the stdio server
stdio_buscar_factura_por_propiedad(query_direccion) ==
  LET query == <<FuzzySql>>
      params == stdio_buscar_params(query_direccion)
      res == ExecuteFacturas(query, params)
      sent == <<Connect(TRUE), Executed(query, params, res.ok), Close>>
      lost == <<Connect(TRUE), Executed(query, params, FALSE), Close>>
  IN
  { Outcome(Text("Error buscando propiedad: ", "RuntimeError: Error conectando a la BD", <<>>, <<>>),
            <<Connect(FALSE)>>),
    Outcome(Text("Error buscando propiedad: ", "psycopg.Error", <<>>, <<>>), lost),
    IF ~res.ok
    THEN Outcome(Text("Error buscando propiedad: ", "psycopg.Error", <<>>, <<>>), sent)
    ELSE IF res.rows = <<>>
    THEN Outcome(Text("No encontre ninguna factura relacionada con la direccion", "", <<>>, <<>>), sent)
    ELSE Outcome(Text("Resultados para", "", res.rows, <<>>), sent) }

\* ------------------------------------------------------ agent_server_sse.py
\* the gatekeeper's statement without LOWER: the email compared as it is stored
resolve_rows_exact(email, tabla) == {r \in tabla : r.email = email}

\* the rows the gatekeeper's statement selects
resolve_rows(email, tabla) == {r \in tabla : LOWER(r.email) = LOWER(email)}

\* a gatekeeper that falls back to the configured key when no row matches
resolve_cif_or_default(email, tabla) ==
  IF resolve_rows(email, tabla) = {}
  THEN {[ok |-> TRUE, cif |-> CURRENT_AGENT_CIF]}
  ELSE {[ok |-> TRUE, cif |-> r.cif] : r \in resolve_rows(email, tabla)}

\* resolve_cif_from_email once its statement has run: the cif of the row
\* fetchone returns, or ok = FALSE for the ValueError "ACCESO DENEGADO"
resolve_cif_from_email(email, tabla) ==
  IF resolve_rows(email, tabla) = {}
  THEN {[ok |-> FALSE, cif |-> None]}
  ELSE {[ok |-> TRUE, cif |-> r.cif] : r \in resolve_rows(email, tabla)}

\* the statement consultar_mis_facturas of the SSE server builds
sse_query(estado, fecha_inicio) ==
  <<BaseSql>>
    \o (IF Truthy(estado) THEN <<AndEstadoSql>> ELSE <<>>)
    \o (IF Truthy(fecha_inicio) THEN <<AndFechaInicioSql>> ELSE <<>>)
    \o <<OrderLimitSql>>

\* the argument list consultar_mis_facturas of the SSE server builds
sse_params(real_cif, estado, fecha_inicio, limit) ==
  <<real_cif>>
    \o (IF Truthy(estado) THEN <<estado>> ELSE <<>>)
    \o (IF Truthy(fecha_inicio) THEN <<fecha_inicio>> ELSE <<>>)
    \o <<limit>>

\* what follows the gatekeeper in consultar_mis_facturas, for one resolution
sse_consultar_after(found, email, estado, fecha_inicio, limit) ==
  LET asked == <<Connect(TRUE), Executed(<<ResolveSql>>, <<email>>, TRUE)>>
      query == sse_query(estado, fecha_inicio)
      params == sse_params(found.cif, estado, fecha_inicio, limit)
      res == ExecuteFacturas(query, params)
  IN
  IF ~found.ok
  THEN {Outcome(Text("Error del sistema: ", "ValueError: ACCESO DENEGADO", <<>>, <<>>),
                asked \o <<Close>>)}
  ELSE
  { Outcome(Text("Error del sistema: ", "psycopg.Error", <<>>, <<>>),
            asked \o <<Executed(query, params, FALSE), Close>>),
    IF ~res.ok
    THEN Outcome(Text("Error del sistema: ", "psycopg.Error", <<>>, <<>>),
                 asked \o <<Executed(query, params, FALSE), Close>>)
    ELSE IF res.rows = <<>>
    THEN Outcome(Text("No se encontraron facturas.", "", <<>>, <<>>),
                 asked \o <<Executed(query, params, TRUE), Close>>)
    ELSE Outcome(Text("str(rows)", "", res.rows, <<>>),
                 asked \o <<Executed(query, params, TRUE), Close>>) }

\* consultar_mis_facturas of the SSE server
sse_consultar_mis_facturas(email_agente, estado, fecha_inicio, limit, tabla) ==
  IF Truthy(estado) /\ estado \notin {PENDIENTE, PAGADA}
  THEN {Outcome(Text("Error: Estado invalido.", "", <<>>, <<>>), <<>>)}
  ELSE
    { Outcome(Text("Error del sistema: ", "psycopg.Error", <<>>, <<>>), <<Connect(FALSE)>>),
      Outcome(Text("Error del sistema: ", "psycopg.Error", <<>>, <<>>),
              <<Connect(TRUE), Executed(<<ResolveSql>>, <<email_agente>>, FALSE), Close>>) }
    \cup UNION { sse_consultar_after(found, email_agente, estado, fecha_inicio, limit) :
                 found \in resolve_cif_from_email(email_agente, tabla) }

\* the argument list buscar_factura_por_propiedad of the SSE server builds
sse_buscar_params(real_cif, query_direccion) ==
  <<query_direccion, real_cif, query_direccion>>

\* what follows the gatekeeper in buscar_factura_por_propiedad
sse_buscar_after(found, email, query_direccion) ==
  LET asked == <<Connect(TRUE), Executed(<<ResolveSql>>, <<email>>, TRUE)>>
      query == <<FuzzySql>>
      params == sse_buscar_params(found.cif, query_direccion)
      res == ExecuteFacturas(query, params)
  IN
  IF ~found.ok
  THEN {Outcome(Text("Error: ", "ValueError: ACCESO DENEGADO", <<>>, <<>>), asked \o <<Close>>)}
  ELSE
  { Outcome(Text("Error: ", "psycopg.Error", <<>>, <<>>),
            asked \o <<Executed(query, params, FALSE), Close>>),
    IF ~res.ok
    THEN Outcome(Text("Error: ", "psycopg.Error", <<>>, <<>>),
                 asked \o <<Executed(query, params, FALSE), Close>>)
    ELSE IF res.rows = <<>>
    THEN Outcome(Text("No se encontro nada.", "", <<>>, <<>>),
                 asked \o <<Executed(query, params, TRUE), Close>>)
    ELSE Outcome(Text("str(rows)", "", res.rows, <<>>),
                 asked \o <<Executed(query, params, TRUE), Close>>) }

\* buscar_factura_por_propiedad of the SSE server
sse_buscar_factura_por_propiedad(email_agente, query_direccion, tabla) ==
  { Outcome(Text("Error: ", "psycopg.Error", <<>>, <<>>), <<Connect(FALSE)>>),
    Outcome(Text("Error: ", "psycopg.Error", <<>>, <<>>),
            <<Connect(TRUE), Executed(<<ResolveSql>>, <<email_agente>>, FALSE), Close>>) }
  \cup UNION { sse_buscar_after(found, email_agente, query_direccion) :
               found \in resolve_cif_from_email(email_agente, tabla) }

\* ---------------------------------------------------- facturacion_server.py
\* get_db_connection raises HTTPException(500), which the handler's
\* except Exception turns into HTTPException(500, str(e))
HttpOutcomeConnect ==
  Outcome(HttpError(500, "str(e)", "HTTPException 500: Error de conexion con el sistema de facturacion"),
          <<Connect(FALSE)>>)

\* the statement consultar_facturas builds
http_query(estado, fecha_inicio, fecha_fin) ==
  <<BaseSql>>
    \o (IF Truthy(estado) THEN <<AndEstadoSql>> ELSE <<>>)
    \o (IF Truthy(fecha_inicio) THEN <<AndFechaInicioSql>> ELSE <<>>)
    \o (IF Truthy(fecha_fin) THEN <<AndFechaFinSql>> ELSE <<>>)
    \o <<OrderLimitSql>>

\* the argument list with fecha_fin appended before fecha_inicio
http_params_fechas_cambiadas(x_agent_cif, estado, fecha_inicio, fecha_fin, limit) ==
  <<x_agent_cif>>
    \o (IF Truthy(estado) THEN <<estado>> ELSE <<>>)
    \o (IF Truthy(fecha_fin) THEN <<fecha_fin>> ELSE <<>>)
    \o (IF Truthy(fecha_inicio) THEN <<fecha_inicio>> ELSE <<>>)
    \o <<limit>>

\* the argument list that ignores the header and takes the configured key
http_params_cif_configurado(x_agent_cif, estado, fecha_inicio, fecha_fin, limit) ==
  <<CURRENT_AGENT_CIF>>
    \o (IF Truthy(estado) THEN <<estado>> ELSE <<>>)
    \o (IF Truthy(fecha_inicio) THEN <<fecha_inicio>> ELSE <<>>)
    \o (IF Truthy(fecha_fin) THEN <<fecha_fin>> ELSE <<>>)
    \o <<limit>>

\* the argument list consultar_facturas builds
http_params(x_agent_cif, estado, fecha_inicio, fecha_fin, limit) ==
  <<x_agent_cif>>
    \o (IF Truthy(estado) THEN <<estado>> ELSE <<>>)
    \o (IF Truthy(fecha_inicio) THEN <<fecha_inicio>> ELSE <<>>)
    \o (IF Truthy(fecha_fin) THEN <<fecha_fin>> ELSE <<>>)
    \o <<limit>>

\* the try block of consultar_facturas: every way it can end
http_consultar_try(x_agent_cif, estado, fecha_inicio, fecha_fin, limit) ==
  LET query == http_query(estado, fecha_inicio, fecha_fin)
      params == http_params(x_agent_cif, estado, fecha_inicio, fecha_fin, limit)
      res == ExecuteFacturas(query, params)
      sent == <<Connect(TRUE), Executed(query, params, res.ok), Close>>
      lost == <<Connect(TRUE), Executed(query, params, FALSE), Close>>
  IN
  { HttpOutcomeConnect,
    Outcome(HttpError(500, "str(e)", "psycopg.Error"), lost),
    IF ~res.ok
    THEN Outcome(HttpError(500, "str(e)", "psycopg.Error"), sent)
    ELSE Outcome(Json({"count", "data", "filtros_aplicados"}, res.rows,
                      [estado |-> estado, fecha_inicio |-> fecha_inicio,
                       fecha_fin |-> fecha_fin, limit |-> limit,
                       agent_cif |-> x_agent_cif]), sent) }

\* consultar_facturas of the invoice API
consultar_facturas(x_agent_cif, estado, fecha_inicio, fecha_fin, limit) ==
  IF Truthy(estado) /\ estado \notin {PENDIENTE, PAGADA}
  THEN {Outcome(HttpError(400, "Estado invalido. Usa 'PENDIENTE' o 'PAGADA'.", ""), <<>>)}
  ELSE IF Truthy(fecha_inicio) /\ ~validar_fecha(fecha_inicio)
  THEN {Outcome(HttpError(400, "Formato de fecha_inicio invalido. Usa 'YYYY-MM-DD' (ej: 2024-11-01).", ""), <<>>)}
  ELSE IF Truthy(fecha_fin) /\ ~validar_fecha(fecha_fin)
  THEN {Outcome(HttpError(400, "Formato de fecha_fin invalido. Usa 'YYYY-MM-DD' (ej: 2024-11-30).", ""), <<>>)}
  ELSE IF Truthy(fecha_inicio) /\ Truthy(fecha_fin) /\ StrGreater(fecha_inicio, fecha_fin)
  THEN {Outcome(HttpError(400, "La fecha_inicio no puede ser posterior a fecha_fin.", ""), <<>>)}
  ELSE http_consultar_try(x_agent_cif, estado, fecha_inicio, fecha_fin, limit)

\* a JSON body of health_check or root: its keys, its "status", its "service"
\* when it has one, and the error text it carries
JsonStatus(keys, status, data, exc) == [JsonData(keys, status, data) EXCEPT !.exc = exc]

FacturacionService == "facturacion-api"
PerformanceService == "performance-api"

\* health_check of either API: every failure becomes an "unhealthy" body
health_check(service, connect_error) ==
  { Outcome(JsonStatus({"status", "database", "error"}, "unhealthy", <<>>, connect_error),
            <<Connect(FALSE)>>),
    Outcome(JsonStatus({"status", "database", "error"}, "unhealthy", <<>>, "psycopg.Error"),
            <<Connect(TRUE), Executed(<<HealthSql>>, <<>>, FALSE), Close>>),
    Outcome(JsonStatus({"status", "database", "service"}, "healthy", [service |-> service], ""),
            <<Connect(TRUE), Executed(<<HealthSql>>, <<>>, TRUE), Close>>) }

\* root of either API
root(service) ==
  {Outcome(JsonStatus({"service", "version", "status", "endpoints"}, "running",
                      [service |-> service], ""), <<>>)}

\* ---------------------------------------------------- performance_server.py
\* a column value of the driver: a number, or NULL (Python's None)
Val(n) == [null |-> FALSE, v |-> n]
Null == [null |-> TRUE, v |-> 0]

ana == <<"a", "@", "x">>
AnaUpper == <<"A", "@", "x">>
AnaHost == <<"a", "@", "X">>
beto == <<"b", "@", "x">>
BetoUpper == <<"B", "@", "x">>
carla == <<"c", "@", "x">>
nadie == <<"x", "@", "x">>

\* the rows of view_agente_performance_anual
view_agente_performance_anual ==
  { [correo |-> ana, anyo |-> 2023, ventas |-> Val(3), facturado |-> Val(9000), cobrado |-> Val(7000)],
    [correo |-> ana, anyo |-> 2024, ventas |-> Val(2), facturado |-> Val(5000), cobrado |-> Val(5000)],
    [correo |-> beto, anyo |-> 2024, ventas |-> Val(1), facturado |-> Null, cobrado |-> Null],
    [correo |-> carla, anyo |-> 2024, ventas |-> Null, facturado |-> Val(100), cobrado |-> Null],
    [correo |-> AnaUpper, anyo |-> 2024, ventas |-> Val(1), facturado |-> Val(300), cobrado |-> Null],
    [correo |-> BetoUpper, anyo |-> 2024, ventas |-> Val(1), facturado |-> Null, cobrado |-> Val(200)],
    [correo |-> AnaHost, anyo |-> 2024, ventas |-> Val(0), facturado |-> Val(0), cobrado |-> Val(0)] }

\* the rows of agentes LEFT JOIN zonas
agentes ==
  { [correo |-> ana, agente_nombre |-> "Ana", zona_nombre |-> "Centro"],
    [correo |-> beto, agente_nombre |-> "Beto", zona_nombre |-> "Camins al Grau"],
    [correo |-> carla, agente_nombre |-> "Carla", zona_nombre |-> ""] }

\* SUM over a column: NULL when no row has a value
RECURSIVE SumOf(_, _)
SumOf(S, col) ==
  IF S = {} THEN Null
  ELSE LET r == CHOOSE x \in S : TRUE
           rest == SumOf(S \ {r}, col)
           c == IF col = "ventas" THEN r.ventas
                ELSE IF col = "facturado" THEN r.facturado ELSE r.cobrado
       IN IF c.null THEN rest
          ELSE IF rest.null THEN c
          ELSE Val(c.v + rest.v)

\* Python truthiness of Optional[int] / Decimal: None and 0 are falsy
TruthyNum(c) == ~c.null /\ c.v # 0

\* the connection failure of the performance API, as each handler reports it
PerfConnectError == "HTTPException 500: Error de conexion con el sistema de performance"

\* obtener_performance, the annual branch, on the row fetchone returned
performance_anual(anyo, rows) ==
  IF rows = {}
  THEN {JsonData({"periodo", "tipo", "mensaje", "data"}, "Anual",
                 [ventas |-> 0, facturado |-> 0, cobrado |-> 0])}
  ELSE { IF r.facturado.null \/ r.cobrado.null
         \* float(None) raises TypeError
         THEN HttpError(500, "str(e)", "TypeError")
         ELSE JsonData({"periodo", "tipo", "data"}, "Anual",
                       [ventas |-> r.ventas.v, facturado |-> r.facturado.v,
                        cobrado |-> r.cobrado.v,
                        pendiente_cobro |-> r.facturado.v - r.cobrado.v]) : r \in rows }

\* the all-time branch casting each sum as the annual branch casts its columns
performance_total_sin_guardas(row) ==
  IF row.total_ventas.null \/ row.total_facturado.null \/ row.total_cobrado.null
  THEN HttpError(500, "str(e)", "TypeError")
  ELSE JsonData({"periodo", "tipo", "data"}, "Acumulado",
                [ventas |-> row.total_ventas.v, facturado |-> row.total_facturado.v,
                 cobrado |-> row.total_cobrado.v,
                 pendiente_cobro |-> row.total_facturado.v - row.total_cobrado.v])

\* obtener_performance, the all-time branch, on the one row of sums
performance_total(row) ==
  IF row.total_ventas.null
  THEN JsonData({"periodo", "tipo", "mensaje", "data"}, "Acumulado",
                [ventas |-> 0, facturado |-> 0, cobrado |-> 0, pendiente_cobro |-> 0])
  ELSE LET facturado == IF TruthyNum(row.total_facturado) THEN row.total_facturado.v ELSE 0
           cobrado == IF TruthyNum(row.total_cobrado) THEN row.total_cobrado.v ELSE 0
       IN JsonData({"periodo", "tipo", "data"}, "Acumulado",
                   [ventas |-> row.total_ventas.v, facturado |-> facturado,
                    cobrado |-> cobrado, pendiente_cobro |-> facturado - cobrado])

\* obtener_performance of the performance API
obtener_performance(anyo, x_agent_email) ==
  LET anual == TruthyNum(anyo)
      query == IF anual THEN <<AnualSql>> ELSE <<TotalSql>>
      params == IF anual THEN <<x_agent_email, anyo.v>> ELSE <<x_agent_email>>
      mine == {r \in view_agente_performance_anual : r.correo = x_agent_email}
      sent == <<Connect(TRUE), Executed(query, params, TRUE), Close>>
      lost == <<Connect(TRUE), Executed(query, params, FALSE), Close>>
  IN
  { Outcome(HttpError(500, "str(e)", PerfConnectError), <<Connect(FALSE)>>),
    Outcome(HttpError(500, "str(e)", "psycopg.Error"), lost) }
  \cup
  ( IF anual
    THEN {Outcome(r, sent) : r \in performance_anual(anyo, {r \in mine : r.anyo = anyo.v})}
    ELSE {Outcome(performance_total(
                    [total_ventas |-> SumOf(mine, "ventas"),
                     total_facturado |-> SumOf(mine, "facturado"),
                     total_cobrado |-> SumOf(mine, "cobrado")]), sent)} )

\* obtener_zona with the one handler "except Exception" for every exception
obtener_zona_sin_reraise(x_agent_email) ==
  LET query == <<ZonaSql>>
      params == <<x_agent_email>>
      mine == {r \in agentes : r.correo = x_agent_email}
      sent == <<Connect(TRUE), Executed(query, params, TRUE), Close>>
      lost == <<Connect(TRUE), Executed(query, params, FALSE), Close>>
  IN
  { Outcome(HttpError(500, "str(e)", PerfConnectError), <<Connect(FALSE)>>),
    Outcome(HttpError(500, "str(e)", "psycopg.Error"), lost) }
  \cup
  ( IF mine = {}
    THEN {Outcome(HttpError(500, "str(e)", "HTTPException 404: Agente no encontrado en el sistema."),
                  sent)}
    ELSE { Outcome(IF r.zona_nombre = ""
                   THEN JsonData({"agente", "tiene_zona", "mensaje"}, r.agente_nombre, <<>>)
                   ELSE JsonData({"agente", "tiene_zona", "zona"}, r.agente_nombre,
                                 [nombre |-> r.zona_nombre]), sent) : r \in mine } )

\* obtener_zona of the performance API
obtener_zona(x_agent_email) ==
  LET query == <<ZonaSql>>
      params == <<x_agent_email>>
      mine == {r \in agentes : r.correo = x_agent_email}
      sent == <<Connect(TRUE), Executed(query, params, TRUE), Close>>
      lost == <<Connect(TRUE), Executed(query, params, FALSE), Close>>
  IN
  { \* except HTTPException: raise, so the 500 of get_db_connection passes as it is
    Outcome(HttpError(500, "Error de conexion con el sistema de performance", ""), <<Connect(FALSE)>>),
    Outcome(HttpError(500, "str(e)", "psycopg.Error"), lost) }
  \cup
  ( IF mine = {}
    THEN {Outcome(HttpError(404, "Agente no encontrado en el sistema.", ""), sent)}
    ELSE { Outcome(IF r.zona_nombre = ""
                   THEN JsonData({"agente", "tiene_zona", "mensaje"}, r.agente_nombre, <<>>)
                   ELSE JsonData({"agente", "tiene_zona", "zona"}, r.agente_nombre,
                                 [nombre |-> r.zona_nombre]), sent) : r \in mine } )

\* the rows of view_stats_zonas
view_stats_zonas ==
  { [zona |-> <<"S", "u", "r">>, num_ventas |-> 5],
    [zona |-> <<"E", "s", "t", "e">>, num_ventas |-> 3] }

\* zona ILIKE '%nombre%' for a nombre without wildcards
ILikeContains(zona, nombre) ==
  \E i \in 1..(Len(zona) + 1) :
    /\ i + Len(nombre) - 1 <= Len(zona)
    /\ LOWER(SubSeq(zona, i, i + Len(nombre) - 1)) = LOWER(nombre)

\* the rows of a set in the order of ORDER BY num_ventas DESC
RECURSIVE OrderByVentasDesc(_)
OrderByVentasDesc(S) ==
  IF S = {} THEN <<>>
  ELSE LET top == CHOOSE r \in S : \A o \in S : r.num_ventas >= o.num_ventas
       IN <<top>> \o OrderByVentasDesc(S \ {top})

\* consultar_stats_zonas of the performance API
consultar_stats_zonas(nombre_zona, limit) ==
  LET filtra == Truthy(nombre_zona)
      query == IF filtra THEN <<StatsSql, WhereZonaSql, OrderLimitStatsSql>>
               ELSE <<StatsSql, OrderLimitStatsSql>>
      params == IF filtra THEN <<nombre_zona, limit>> ELSE <<limit>>
      found == {r \in view_stats_zonas : filtra => ILikeContains(r.zona, nombre_zona)}
      rows == Take(OrderByVentasDesc(found), limit)
      sent == <<Connect(TRUE), Executed(query, params, TRUE), Close>>
      lost == <<Connect(TRUE), Executed(query, params, FALSE), Close>>
  IN
  { Outcome(HttpError(500, "str(e)", PerfConnectError), <<Connect(FALSE)>>),
    Outcome(HttpError(500, "str(e)", "psycopg.Error"), lost),
    Outcome(IF rows = <<>>
            THEN Json({"mensaje", "data"}, <<>>, nombre_zona)
            ELSE Json({"count", "tipo_busqueda", "data"}, rows, nombre_zona), sent) }

\* ------------------------------------------------------------ the requests
Nov01 == <<"2", "0", "2", "4", "-", "1", "1", "-", "0", "1">>
Nov30 == <<"2", "0", "2", "4", "-", "1", "1", "-", "3", "0">>
Feb1Short == <<"2", "0", "2", "4", "-", "2", "-", "1">>
Feb30 == <<"2", "0", "2", "4", "-", "0", "2", "-", "3", "0">>
Slashes == <<"0", "1", "/", "1", "1", "/", "2", "0", "2", "4">>

Estados == {None, <<>>, PENDIENTE, PAGADA, OTRA}
Fechas == {None, Nov01, Nov30, Feb1Short, Feb30, Slashes}
FechasFin == {None, Nov01, Nov30, Feb1Short, Feb30}
Limits == 1..MaxLimit
Emails == {ana, AnaUpper, AnaHost, beto, BetoUpper, carla, nadie}
HeaderCifs == {B1, B2, B9}
Terms == {"Velazquez", "Ricard Vicent", "Gran Via"}
Anyos == {Null, Val(0), Val(2023), Val(2024), Val(2025)}
NombresZona == {None, <<>>, <<"s">>, <<"s", "u">>, <<"z">>}
Apis ==
  { [service |-> FacturacionService, titulo |-> "Facturacion API - Agentes Inmobiliarios",
     connect_error |-> HttpOutcomeConnect.resp.exc],
    [service |-> PerformanceService, titulo |-> "Performance API - Agentes Inmobiliarios",
     connect_error |-> PerfConnectError] }

\* the identity tables: one row per known identity, the email stored in any
\* letter case
StoredEmails == {ana, AnaUpper, beto, carla}
IdentityRows == [email : StoredEmails, cif : {B1, B2}]
IdentityTables ==
  { t \in SUBSET IdentityRows :
      /\ Cardinality(t) <= MaxAgents
      /\ \A r1, r2 \in t : LOWER(r1.email) = LOWER(r2.email) => r1 = r2 }

NoRequest ==
  [email |-> None, cif |-> None, estado |-> None, fecha_inicio |-> None,
   fecha_fin |-> None, limit |-> 0, query_direccion |-> "", anyo |-> Null,
   nombre_zona |-> None]

NoResponse == Text("", "", <<>>, <<>>)

\* the connections a handler leaves open: those it opened and did not close
RECURSIVE LeftOpen(_)
LeftOpen(l) ==
  IF l = <<>> THEN 0
  ELSE LeftOpen(Tail(l))
       + (IF Head(l).op = "connect" /\ Head(l).ok THEN 1
          ELSE IF Head(l).op = "close" THEN -1 ELSE 0)

\* a handler ran to its return or raise
Finish(name, r, out) ==
  /\ pc' = "done"
  /\ handler' = name
  /\ req' = r
  /\ resp' = out.resp
  /\ log' = out.log
  /\ open_conns' = open_conns + LeftOpen(out.log)
  /\ UNCHANGED contacto_agentes

Init ==
  /\ contacto_agentes \in IdentityTables
  /\ pc = "idle"
  /\ handler = ""
  /\ req = NoRequest
  /\ resp = NoResponse
  /\ log = <<>>
  /\ open_conns = 0

StdioConsultarMisFacturas ==
  /\ pc = "idle"
  /\ \E estado \in Estados, fecha_inicio \in Fechas, fecha_fin \in FechasFin, limit \in Limits :
       \E out \in stdio_consultar_mis_facturas(estado, fecha_inicio, fecha_fin, limit) :
         Finish("stdio.consultar_mis_facturas",
                [NoRequest EXCEPT !.cif = CURRENT_AGENT_CIF, !.estado = estado,
                                  !.fecha_inicio = fecha_inicio, !.fecha_fin = fecha_fin,
                                  !.limit = limit], out)

StdioBuscarFacturaPorPropiedad ==
  /\ pc = "idle"
  /\ \E query_direccion \in Terms :
       \E out \in stdio_buscar_factura_por_propiedad(query_direccion) :
         Finish("stdio.buscar_factura_por_propiedad",
                [NoRequest EXCEPT !.cif = CURRENT_AGENT_CIF,
                                  !.query_direccion = query_direccion], out)

SseConsultarMisFacturas ==
  /\ pc = "idle"
  /\ \E email_agente \in Emails, estado \in Estados, fecha_inicio \in Fechas, limit \in Limits :
       \E out \in sse_consultar_mis_facturas(email_agente, estado, fecha_inicio, limit,
                                             contacto_agentes) :
         Finish("sse.consultar_mis_facturas",
                [NoRequest EXCEPT !.email = email_agente, !.estado = estado,
                                  !.fecha_inicio = fecha_inicio, !.limit = limit], out)

SseBuscarFacturaPorPropiedad ==
  /\ pc = "idle"
  /\ \E email_agente \in Emails, query_direccion \in Terms :
       \E out \in sse_buscar_factura_por_propiedad(email_agente, query_direccion,
                                                   contacto_agentes) :
         Finish("sse.buscar_factura_por_propiedad",
                [NoRequest EXCEPT !.email = email_agente,
                                  !.query_direccion = query_direccion], out)

HttpConsultarFacturas ==
  /\ pc = "idle"
  /\ \E x_agent_cif \in HeaderCifs, estado \in Estados, fecha_inicio \in Fechas,
        fecha_fin \in FechasFin, limit \in Limits :
       \E out \in consultar_facturas(x_agent_cif, estado, fecha_inicio, fecha_fin, limit) :
         Finish("http.consultar_facturas",
                [NoRequest EXCEPT !.cif = x_agent_cif, !.estado = estado,
                                  !.fecha_inicio = fecha_inicio, !.fecha_fin = fecha_fin,
                                  !.limit = limit], out)

HttpMiPerformance ==
  /\ pc = "idle"
  /\ \E x_agent_email \in Emails, anyo \in Anyos :
       \E out \in obtener_performance(anyo, x_agent_email) :
         Finish("http.mi_performance",
                [NoRequest EXCEPT !.email = x_agent_email, !.anyo = anyo], out)

HttpMiZona ==
  /\ pc = "idle"
  /\ \E x_agent_email \in Emails :
       \E out \in obtener_zona(x_agent_email) :
         Finish("http.mi_zona", [NoRequest EXCEPT !.email = x_agent_email], out)

HttpStatsZonas ==
  /\ pc = "idle"
  /\ \E nombre_zona \in NombresZona, limit \in Limits :
       \E out \in consultar_stats_zonas(nombre_zona, limit) :
         Finish("http.stats_zonas",
                [NoRequest EXCEPT !.nombre_zona = nombre_zona, !.limit = limit], out)

HttpHealthCheck ==
  /\ pc = "idle"
  /\ \E api \in Apis :
       \E out \in health_check(api.service, api.connect_error) :
         Finish("http.health_check", NoRequest, out)

HttpRoot ==
  /\ pc = "idle"
  /\ \E api \in Apis :
       \E out \in root(api.titulo) :
         Finish("http.root", NoRequest, out)

\* the transport sends the response; nothing of the request is kept
Respond ==
  /\ pc = "done"
  /\ pc' = "idle"
  /\ handler' = ""
  /\ req' = NoRequest
  /\ resp' = NoResponse
  /\ log' = <<>>
  /\ UNCHANGED <<contacto_agentes, open_conns>>

Next ==
  \/ StdioConsultarMisFacturas
  \/ StdioBuscarFacturaPorPropiedad
  \/ SseConsultarMisFacturas
  \/ SseBuscarFacturaPorPropiedad
  \/ HttpConsultarFacturas
  \/ HttpMiPerformance
  \/ HttpMiZona
  \/ HttpStatsZonas
  \/ HttpHealthCheck
  \/ HttpRoot
  \/ Respond

Spec == Init /\ [][Next]_vars

\* ============================================================== the claims
Done == pc = "done"

ListHandlers ==
  {"stdio.consultar_mis_facturas", "sse.consultar_mis_facturas", "http.consultar_facturas"}
SseHandlers == {"sse.consultar_mis_facturas", "sse.buscar_factura_por_propiedad"}
InvoiceHandlers ==
  ListHandlers \cup {"stdio.buscar_factura_por_propiedad", "sse.buscar_factura_por_propiedad"}
EmailHandlers == SseHandlers \cup {"http.mi_performance", "http.mi_zona"}

\* the positions of the log at which a statement was executed
Executes == {i \in 1..Len(log) : log[i].op = "execute"}
IdentityReads == {i \in Executes : log[i].query = <<ResolveSql>>}
InvoiceQueries == {i \in Executes : Head(log[i].query) \in {BaseSql, FuzzySql}}
DataQueries == Executes \ IdentityReads

\* the connection was opened and every statement sent was answered
Answered ==
  /\ Len(log) > 0
  /\ \A i \in 1..Len(log) : log[i].ok

ErrorTexts ==
  {"Error: Estado invalido. Usa 'PENDIENTE' o 'PAGADA'.",
   "Error: Formato de fecha_inicio invalido. Usa 'YYYY-MM-DD' (ej: 2024-11-01).",
   "Error: Formato de fecha_fin invalido. Usa 'YYYY-MM-DD' (ej: 2024-11-30).",
   "Error: La fecha_inicio no puede ser posterior a fecha_fin.",
   "Error en sistema de facturacion: ", "Error buscando propiedad: ",
   "Error: Estado invalido.", "Error del sistema: ", "Error: "}

\* the response is an error of its transport
IsError == IF resp.status = 0 THEN resp.tag \in ErrorTexts ELSE resp.status >= 400

\* the response is an explicit denial of access
IsDenial ==
  IF resp.status = 0
  THEN resp.tag \in ErrorTexts /\ resp.exc = "ValueError: ACCESO DENEGADO"
  ELSE resp.status \in {401, 403, 404}

\* the caller's email has no row in the table that knows the agents of its server
UnknownEmail ==
  IF handler \in SseHandlers
  THEN \A r \in contacto_agentes : LOWER(r.email) # LOWER(req.email)
  ELSE /\ \A r \in agentes : LOWER(r.correo) # LOWER(req.email)
       /\ \A r \in view_agente_performance_anual : LOWER(r.correo) # LOWER(req.email)

\* C1: in every tool or endpoint that receives a caller email, a request whose
\* email has no row in the identity table never ends in a success response,
\* and ends in an explicit denial whenever the database answered.
C1_UnknownEmailIsDenied ==
  (Done /\ handler \in EmailHandlers /\ UnknownEmail)
    => /\ IsError
       /\ Answered => IsDenial

\* the positions of a statement's arguments that say whose rows are asked for
OwnerArgs(i) ==
  {k \in 1..Len(log[i].params) :
     /\ k <= Len(StatementPlaceholders(log[i].query))
     /\ StatementPlaceholders(log[i].query)[k] \in {"emisor_cif =", "correo ="}}

\* C2: in every request that carries a caller email, no data statement (invoices,
\* performance, zone) is executed with the raw email as its filter argument.
C2_EmailNeverFiltersData ==
  (Done /\ req.email # None)
    => \A i \in DataQueries : \A k \in OwnerArgs(i) : log[i].params[k] # req.email

\* the keys the identity table holds for the caller's email
KeysOfCaller == {r.cif : r \in {x \in contacto_agentes : LOWER(x.email) = LOWER(req.email)}}

\* the call passed the input validation of its tool
SsePassedValidation == handler \in SseHandlers /\ log # <<>>

\* the identity read comes first, with the caller's email; an invoice
\* statement follows only a read that found a row, and carries that row's key
C3_Gatekeeping ==
  /\ \A i \in IdentityReads : i = 2 /\ log[i].params = <<req.email>>
  /\ \A j \in InvoiceQueries :
       /\ \E i \in IdentityReads : i < j /\ log[i].ok
       /\ KeysOfCaller # {}
       /\ \A k \in OwnerArgs(j) : log[j].params[k] \in KeysOfCaller
       /\ OwnerArgs(j) # {}

\* C3 as amended: in each call of an SSE tool that passes input validation and
\* obtains its connection, exactly one read of the identity table happens (none
\* when the connection cannot be opened), before any invoice statement, and the
\* invoice statement is executed only if that read found a row, with its key.
C3_OneIdentityReadPerConnectedCall ==
  (Done /\ SsePassedValidation)
    => /\ Cardinality(IdentityReads) = (IF log[1].ok THEN 1 ELSE 0)
       /\ Cardinality(InvoiceQueries) <= 1
       /\ C3_Gatekeeping

\* C3 as stated: exactly one identity read in each call that passes validation
C3_ExactlyOneIdentityRead ==
  (Done /\ SsePassedValidation)
    => /\ Cardinality(IdentityReads) = 1
       /\ C3_Gatekeeping

C3_Witness ==
  /\ Done
  /\ handler = "sse.consultar_mis_facturas"
  /\ Cardinality(IdentityReads) = 1
  /\ Cardinality(InvoiceQueries) = 1
  /\ resp.rows # <<>>

\* two emails that differ only in letter case
CasePairs == {<<"a", "A">>, <<"b", "B">>, <<"c", "C">>, <<"x", "X">>}
SameButCase(e1, e2) ==
  /\ Len(e1) = Len(e2)
  /\ \A i \in 1..Len(e1) :
       \/ e1[i] = e2[i]
       \/ <<e1[i], e2[i]>> \in CasePairs
       \/ <<e2[i], e1[i]>> \in CasePairs

\* C4: for every identity table and every two emails that differ only in
\* letter case, resolve_cif_from_email returns the same key for both or raises
\* for both, whatever the letter case of the stored email: what the gatekeeper
\* answered for the caller's email is what it answers for every respelling.
C4_ResolveIgnoresCase ==
  (Done /\ handler \in SseHandlers)
    => \A e \in Emails :
         SameButCase(req.email, e)
           => resolve_cif_from_email(e, contacto_agentes)
                = resolve_cif_from_email(req.email, contacto_agentes)

C4_Witness ==
  /\ Done
  /\ handler \in SseHandlers
  /\ req.email = AnaHost
  /\ \E r \in contacto_agentes : r.email = AnaUpper
  /\ InvoiceQueries # {}

InvalidStatusTexts ==
  {"Error: Estado invalido. Usa 'PENDIENTE' o 'PAGADA'.", "Error: Estado invalido.",
   "Estado invalido. Usa 'PENDIENTE' o 'PAGADA'."}

BadStatus == Truthy(req.estado) /\ req.estado \notin {PENDIENTE, PAGADA}

\* C5: in every invoice-listing operation, a request whose status is non-empty
\* and is not one of the two allowed values is rejected with the invalid-status
\* error, whatever the other parameters are.
C5_BadStatusRejected ==
  (Done /\ handler \in ListHandlers /\ BadStatus)
    => /\ resp.tag \in InvalidStatusTexts
       /\ resp.status = (IF handler = "http.consultar_facturas" THEN 400 ELSE 0)
       /\ log = <<>>

C5_Witness ==
  /\ Done
  /\ handler = "stdio.consultar_mis_facturas"
  /\ BadStatus
  /\ req.fecha_inicio = Slashes
  /\ resp.tag \in InvalidStatusTexts

\* neither the connection nor a statement failed
NoFailure == \A i \in 1..Len(log) : log[i].ok

\* a string of the form YYYY-MM-DD that names a day of the calendar
StrictYmd(s) ==
  /\ Len(s) = 10
  /\ \A i \in {1, 2, 3, 4, 6, 7, 9, 10} : IsDigit(s[i])
  /\ s[5] = "-" /\ s[8] = "-"
  /\ LET y == IntOf(s, 1, 4)
         m == IntOf(s, 6, 2)
         d == IntOf(s, 9, 2)
     IN y >= 1 /\ m >= 1 /\ m <= 12 /\ d >= 1 /\ d <= DaysInMonth(y, m)

BadFechaInicio == Truthy(req.fecha_inicio) /\ ~StrictYmd(req.fecha_inicio)
BadFechaFin == Truthy(req.fecha_fin) /\ ~StrictYmd(req.fecha_fin)

InvalidFechaInicioTexts ==
  {"Error: Formato de fecha_inicio invalido. Usa 'YYYY-MM-DD' (ej: 2024-11-01).",
   "Formato de fecha_inicio invalido. Usa 'YYYY-MM-DD' (ej: 2024-11-01)."}
InvalidFechaFinTexts ==
  {"Error: Formato de fecha_fin invalido. Usa 'YYYY-MM-DD' (ej: 2024-11-30).",
   "Formato de fecha_fin invalido. Usa 'YYYY-MM-DD' (ej: 2024-11-30)."}
InvalidRangeTexts ==
  {"Error: La fecha_inicio no puede ser posterior a fecha_fin.",
   "La fecha_inicio no puede ser posterior a fecha_fin."}

\* C6: in every invoice-listing operation that accepts a date filter, a provided
\* date string that is not of the form YYYY-MM-DD (a real calendar date) is
\* rejected with the invalid-date-format error naming that field, and no
\* statement is run with it (stated for the requests the database did not fail).
C6_BadDateRejected ==
  (Done /\ handler \in ListHandlers /\ ~BadStatus /\ NoFailure)
    => /\ BadFechaInicio => (resp.tag \in InvalidFechaInicioTexts /\ log = <<>>)
       /\ (~BadFechaInicio /\ BadFechaFin) => (resp.tag \in InvalidFechaFinTexts /\ log = <<>>)

\* the calendar order of two strings that strptime accepts
CalendarLater(s, t) == DateNum(Strptime(s)) > DateNum(Strptime(t))

\* C7: for every pair (fecha_inicio, fecha_fin) that both pass the date-format
\* check, the request is rejected with the invalid-date-range error exactly when
\* fecha_inicio is a later calendar date than fecha_fin (stated for the requests
\* the database did not fail).
C7_RangeIsCalendarOrder ==
  (/\ Done
   /\ NoFailure
   /\ handler \in {"stdio.consultar_mis_facturas", "http.consultar_facturas"}
   /\ ~BadStatus
   /\ Truthy(req.fecha_inicio) /\ validar_fecha(req.fecha_inicio)
   /\ Truthy(req.fecha_fin) /\ validar_fecha(req.fecha_fin))
    => (resp.tag \in InvalidRangeTexts <=> CalendarLater(req.fecha_inicio, req.fecha_fin))

\* the keys a request may see: the key it was given, or the keys of its caller
RequestKeys == IF handler \in SseHandlers THEN KeysOfCaller ELSE {req.cif}

\* the optional filters of the request that are present, in the order of the
\* statement, each with the condition it belongs to
PresentFilters ==
  (IF Truthy(req.estado) THEN <<[what |-> "estado_legible =", arg |-> req.estado]>> ELSE <<>>)
    \o (IF Truthy(req.fecha_inicio)
        THEN <<[what |-> "fecha_emision >=", arg |-> req.fecha_inicio]>> ELSE <<>>)
    \o (IF Truthy(req.fecha_fin)
        THEN <<[what |-> "fecha_emision <=", arg |-> req.fecha_fin]>> ELSE <<>>)

\* C8: for every valid filter combination of the invoice-listing statement, the
\* argument list has exactly 1 + (present optional filters) + 1 entries, the
\* statement has as many placeholders, the authorization key is the first
\* argument, the limit the last, and the present filters lie between them in the
\* order status, fecha_inicio, fecha_fin, each at its own placeholder.
C8_ArgumentsMatchPlaceholders ==
  (Done /\ handler \in ListHandlers)
    => \A i \in InvoiceQueries :
         LET args == log[i].params
             ph == StatementPlaceholders(log[i].query)
             n == 1 + Len(PresentFilters) + 1
         IN /\ Len(args) = n
            /\ Len(ph) = n
            /\ ph[1] = "emisor_cif =" /\ args[1] \in RequestKeys
            /\ ph[n] = "LIMIT" /\ args[n] = req.limit
            /\ \A k \in 1..Len(PresentFilters) :
                 /\ ph[k + 1] = PresentFilters[k].what
                 /\ args[k + 1] = PresentFilters[k].arg

C8_Witness ==
  /\ Done
  /\ handler = "http.consultar_facturas"
  /\ Len(PresentFilters) = 3
  /\ InvoiceQueries # {}
  /\ resp.status = 200
  /\ resp.rows # <<>>

\* the key of the invoice whose number a returned row carries
OwnerOf(numero_factura) ==
  (CHOOSE r \in view_ai_facturas : r.numero_factura = numero_factura).emisor_cif

\* C9: every invoice row returned by any invoice operation belongs to the
\* authorization key of that request, and every invoice statement executed
\* carries the authorization-key condition bound to the request's key.
C9_RowsBelongToKey ==
  (Done /\ handler \in InvoiceHandlers)
    => /\ \A i \in InvoiceQueries :
            /\ OwnerArgs(i) # {}
            /\ \A k \in OwnerArgs(i) : log[i].params[k] \in RequestKeys
       /\ \A j \in 1..Len(resp.rows) : OwnerOf(resp.rows[j].numero_factura) \in RequestKeys

C9_Witness ==
  /\ Done
  /\ handler = "sse.buscar_factura_por_propiedad"
  /\ req.query_direccion = "Velazquez"
  /\ KeysOfCaller = {B2}
  /\ Len(resp.rows) = 1

NoResultsTexts ==
  {"No se encontraron facturas con esos criterios.",
   "No encontre ninguna factura relacionada con la direccion",
   "No se encontraron facturas.", "No se encontro nada."}

\* the response says in so many words that nothing was found
SaysNoResults ==
  IF resp.status = 0
  THEN resp.tag \in NoResultsTexts
  ELSE resp.status = 200 /\ resp.keys \cap {"mensaje", "encontrados"} # {}

\* C10: whenever an invoice statement returns zero rows, the response of the
\* string-formatted tools and of the HTTP JSON endpoint carries an explicit
\* 'no results' signal, neither an error nor merely count = 0 with an empty list.
C10_EmptyResultIsExplicit ==
  (Done /\ handler \in InvoiceHandlers /\ InvoiceQueries # {} /\ Answered /\ resp.rows = <<>>)
    => SaysNoResults

\* ---- C11
SumsOfCaller ==
  LET mine == {r \in view_agente_performance_anual : r.correo = req.email}
  IN [ventas |-> SumOf(mine, "ventas"), facturado |-> SumOf(mine, "facturado"),
      cobrado |-> SumOf(mine, "cobrado")]

AllTimeAnswered ==
  /\ Done
  /\ handler = "http.mi_performance"
  /\ ~TruthyNum(req.anyo)
  /\ NoFailure

\* C11: an all-time mi-performance request whose connection and statement
\* succeeded is answered with status 200 whatever sums are None, never with a
\* TypeError; when no row matches the email, so that every sum is None, the
\* data is {ventas: 0, facturado: 0.0, cobrado: 0.0, pendiente_cobro: 0.0}.
C11_AllTimeSurvivesNone ==
  AllTimeAnswered
    => /\ resp.status = 200
       /\ resp.exc # "TypeError"
       /\ (\A r \in view_agente_performance_anual : r.correo # req.email)
            => resp.data = [ventas |-> 0, facturado |-> 0, cobrado |-> 0,
                            pendiente_cobro |-> 0]

\* an all-time answer over sums of which one is a number and another is None
C11_Witness ==
  /\ AllTimeAnswered
  /\ ~SumsOfCaller.ventas.null
  /\ ~SumsOfCaller.facturado.null
  /\ SumsOfCaller.cobrado.null
  /\ resp.status = 200
  /\ resp.data.pendiente_cobro = SumsOfCaller.facturado.v

\* ---- C12
Acquired == {i \in 1..Len(log) : log[i].op = "connect" /\ log[i].ok}
Released == {i \in 1..Len(log) : log[i].op = "close"}

\* C12: no connection is held between requests or after a response is
\* produced; a request tries to connect at most once, and the connection it
\* acquired is closed exactly once, after its last statement, on every exit
\* path.
C12_ConnectionsReleased ==
  /\ open_conns = 0
  /\ Done
       => /\ Cardinality({i \in 1..Len(log) : log[i].op = "connect"}) <= 1
          /\ Cardinality(Released) = Cardinality(Acquired)
          /\ \A i \in Acquired : log[Len(log)].op = "close"

\* the annual mi-performance request that fails while formatting its row
\* (float(None)) after a successful statement, its connection closed
C12_Witness ==
  /\ Done
  /\ handler = "http.mi_performance"
  /\ resp.exc = "TypeError"
  /\ NoFailure
  /\ Acquired = {1}
  /\ log[Len(log)].op = "close"
  /\ open_conns = 0

\* ---- C13
ToolHandlers ==
  {"stdio.consultar_mis_facturas", "stdio.buscar_factura_por_propiedad",
   "sse.consultar_mis_facturas", "sse.buscar_factura_por_propiedad"}
HttpHandlers ==
  {"http.consultar_facturas", "http.mi_performance", "http.mi_zona", "http.stats_zonas",
   "http.health_check", "http.root"}

\* the request fails one of the checks consultar-facturas makes on its body
HttpValidationFails ==
  /\ handler = "http.consultar_facturas"
  /\ \/ BadStatus
     \/ Truthy(req.fecha_inicio) /\ ~validar_fecha(req.fecha_inicio)
     \/ Truthy(req.fecha_fin) /\ ~validar_fecha(req.fecha_fin)
     \/ Truthy(req.fecha_inicio) /\ Truthy(req.fecha_fin)
          /\ StrGreater(req.fecha_inicio, req.fecha_fin)

\* mi-zona ran its statement and no agent has the caller's email
UnknownAgentInZona ==
  /\ handler = "http.mi_zona"
  /\ Answered
  /\ \A r \in agentes : r.correo # req.email

\* C13: every tool invocation ends by returning a string, and every HTTP
\* request ends in a 200 body or an HTTP error of status 400, 404 or 500; the
\* status is 400 exactly for a failed input check of consultar-facturas, 404
\* exactly for an unknown agent in mi-zona, and a failed connect or statement
\* of an endpoint other than the health check gives 500.
C13_FailuresConverted ==
  Done
    => /\ handler \in ToolHandlers \cup HttpHandlers
       /\ handler \in ToolHandlers => resp.status = 0
       /\ handler \in HttpHandlers
            => /\ resp.status \in {200, 400, 404, 500}
               /\ resp.status = 400 <=> HttpValidationFails
               /\ resp.status = 404 <=> UnknownAgentInZona
               /\ (~NoFailure /\ handler # "http.health_check") => resp.status = 500

\* the 404 raised inside the try block of mi-zona reaches the caller as a 404
C13_Witness ==
  /\ Done
  /\ UnknownAgentInZona
  /\ resp.status = 404
  /\ resp.tag = "Agente no encontrado en el sistema."

\* ---- C14
\* the first check the request fails, in the order status, fecha_inicio format,
\* fecha_fin format, range; the formats are judged as validar_fecha judges them
FirstFailedCheck ==
  IF BadStatus THEN "estado"
  ELSE IF Truthy(req.fecha_inicio) /\ ~validar_fecha(req.fecha_inicio) THEN "fecha_inicio"
  ELSE IF Truthy(req.fecha_fin) /\ ~validar_fecha(req.fecha_fin) THEN "fecha_fin"
  ELSE IF Truthy(req.fecha_inicio) /\ Truthy(req.fecha_fin)
          /\ StrGreater(req.fecha_inicio, req.fecha_fin) THEN "rango"
  ELSE "ninguno"

TextsOfCheck(check) ==
  CASE check = "estado" -> InvalidStatusTexts
    [] check = "fecha_inicio" -> InvalidFechaInicioTexts
    [] check = "fecha_fin" -> InvalidFechaFinTexts
    [] check = "rango" -> InvalidRangeTexts
    [] OTHER -> {}

\* no attempt to connect was refused
DatabaseReachable == \A i \in 1..Len(log) : log[i].op = "connect" => log[i].ok

\* C14: in every invoice-listing operation, with the database reachable, a
\* request that fails a check (status, format of fecha_inicio, format of
\* fecha_fin, range) opens no connection, so it reads no identity and executes
\* no query, and the error it reports is that of the first failing check in
\* this order.
C14_ChecksBeforeConnection ==
  (Done /\ handler \in ListHandlers /\ DatabaseReachable /\ FirstFailedCheck # "ninguno")
    => /\ log = <<>>
       /\ resp.tag \in TextsOfCheck(FirstFailedCheck)

\* ---- C15
\* C15: every 200 response of mi-performance, annual or all-time, with or
\* without matching rows, has a data record with the field pendiente_cobro,
\* equal to facturado minus cobrado of that record.
C15_PendienteIsDifference ==
  (Done /\ handler = "http.mi_performance" /\ resp.status = 200)
    => /\ "pendiente_cobro" \in DOMAIN resp.data
       /\ resp.data.pendiente_cobro = resp.data.facturado - resp.data.cobrado

====
